---------------------------- MODULE Spec2Model ----------------------------
(***************************************************************************)
(* A model of treegen4gpt.py: the comment/docstring stripper, the          *)
(* function-body reducer, the blank-line collapser, the settings file      *)
(* writer/reader and the arborescence builder.                             *)
(*                                                                         *)
(* Text is a sequence of atoms.  An atom is one column wide and stands for *)
(* one lexical unit of the source language:                                *)
(*   " "  a space            "\n" a line break         "#" a comment       *)
(*   "x"  a name             "="  the assignment sign  "pass"              *)
(*   "def" "adef" "class" "if"  a compound-statement header up to its ':'  *)
(*   "'a'" "'b'"       a single-quoted string literal with content a / b   *)
(*   "'''a'''" "'''b'''"  a triple-quoted string literal with content a / b*)
(***************************************************************************)
EXTENDS Integers, Sequences, FiniteSets, TLC

VARIABLES
    code,       \* the source text handed to a transformer
    content,    \* the text a transformer returned
    tree,       \* remove_function_body: the syntax tree after the visit
    pc,         \* position of the run
    savefile,   \* .treegen4gpt.save: its text, or NoFile
    settings,   \* the settings handed to save_settings
    loaded,     \* what load_settings returned
    fs,         \* the directory tree under the working directory
    ignored,    \* the two exclusion sets handed to get_arborescence
    arborescence, \* the listing get_arborescence returned
    sources,    \* the text of each file of the directory tree
    template,   \* the text write_template wrote to template.txt
    rows,       \* the rows of the tree view of the window
    widgets     \* the description and the two exclusion entries of the window

vars == <<code, content, tree, pc, savefile, settings, loaded, fs, ignored, arborescence,
          sources, template, rows, widgets>>

\* ------------------------------------------------------------------ bounds

\* Number of physical lines of a source text handed to the stripper.
MaxLines == 3
\* Number of physical lines of a source text handed to the reducer.
MaxBodyLines == 4
\* Number of characters of a text handed to the blank-line collapser.
MaxChars == 8
\* Number of characters of the description of a project.
MaxDescription == 2
\* Number of files and directories below the root of a project.
MaxNodes == 4
\* Number of files and directories of a project a template is written for.
MaxItems == 3
\* Number of lines a damaged settings file can keep.
MaxFileLines == 5
\* Number of files and directories of the project the window shows.
MaxGuiItems == 2
\* Deepest indentation level of a line (one space per level).
MaxIndent == 2

\* ------------------------------------------------------------------- text

SP == " "
LF == "\n"

SingleQuoted == {"'a'", "'b'"}
TripleQuoted == {"'''a'''", "'''b'''"}
StringAtoms == SingleQuoted \cup TripleQuoted
HeaderAtoms == {"def", "adef", "class", "if"}
NameAtoms == {"x", "pass"}

RECURSIVE Spaces(_)
Spaces(n) == IF n <= 0 THEN <<>> ELSE <<SP>> \o Spaces(n - 1)

Range(seq) == { seq[i] : i \in 1..Len(seq) }

RECURSIVE IndexOf(_, _, _)
\* the first index >= i of atom a in text t, or 0
IndexOf(t, a, i) ==
    IF i > Len(t) THEN 0
    ELSE IF t[i] = a THEN i
    ELSE IndexOf(t, a, i + 1)

RECURSIVE SplitLines(_)
\* io.StringIO(code).readline: the physical lines, each with its content
\* and whether a line break ends it
SplitLines(t) ==
    IF t = <<>> THEN <<>>
    ELSE LET k == IndexOf(t, LF, 1)
         IN  IF k = 0 THEN << [c |-> t, nl |-> FALSE] >>
             ELSE << [c |-> SubSeq(t, 1, k - 1), nl |-> TRUE] >>
                  \o SplitLines(SubSeq(t, k + 1, Len(t)))

RECURSIVE LeadingSpaces(_, _)
LeadingSpaces(c, i) ==
    IF i <= Len(c) /\ c[i] = SP THEN LeadingSpaces(c, i + 1) ELSE i - 1

\* -------------------------------------------------------------- tokenize

Tok(type, string, sl, sc, el, ec) ==
    [type |-> type, string |-> string, sl |-> sl, sc |-> sc, el |-> el, ec |-> ec]

TokType(a) ==
    IF a \in StringAtoms THEN "STRING"
    ELSE IF a \in NameAtoms THEN "NAME"
    ELSE "OP"

RECURSIVE ScanLine(_, _, _)
\* the tokens of line ln from index i on; a comment runs to the end of the line
ScanLine(c, ln, i) ==
    IF i > Len(c) THEN <<>>
    ELSE IF c[i] = SP THEN ScanLine(c, ln, i + 1)
    ELSE IF c[i] = "#"
         THEN << Tok("COMMENT", SubSeq(c, i, Len(c)), ln, i - 1, ln, Len(c)) >>
    ELSE << Tok(TokType(c[i]), << c[i] >>, ln, i - 1, ln, i) >> \o ScanLine(c, ln, i + 1)

Top(stack) == stack[Len(stack)]

RECURSIVE PopTo(_, _)
PopTo(stack, col) == IF Top(stack) > col THEN PopTo(SubSeq(stack, 1, Len(stack) - 1), col) ELSE stack

RECURSIVE Dedents(_, _, _)
Dedents(n, ln, col) == IF n <= 0 THEN <<>> ELSE << Tok("DEDENT", <<>>, ln, col, ln, col) >> \o Dedents(n - 1, ln, col)

RECURSIVE TokLines(_, _, _)
\* tokenize.generate_tokens, line by line, with the indentation stack
TokLines(lines, i, stack) ==
    IF i > Len(lines)
    THEN [ok |-> TRUE,
          toks |-> Dedents(Len(stack) - 1, i, 0) \o << Tok("ENDMARKER", <<>>, i, 0, i, 0) >>]
    ELSE
    LET c    == lines[i].c
        nl   == lines[i].nl
        col  == LeadingSpaces(c, 1)
        eol  == IF nl THEN << LF >> ELSE <<>>
    IN  IF col = Len(c)
        THEN \* a blank line: NL, or nothing when no line break ends the text
             IF nl
             THEN LET rest == TokLines(lines, i + 1, stack)
                  IN  [ok |-> rest.ok, toks |-> << Tok("NL", eol, i, col, i, col + 1) >> \o rest.toks]
             ELSE [ok |-> TRUE,
                   toks |-> Dedents(Len(stack) - 1, i, 0) \o << Tok("ENDMARKER", <<>>, i, 0, i, 0) >>]
        ELSE IF c[col + 1] = "#"
        THEN \* a comment-only line: COMMENT NL, the indentation is not looked at
             LET rest == TokLines(lines, i + 1, stack)
             IN  [ok |-> rest.ok,
                  toks |-> ScanLine(c, i, col + 1)
                           \o << Tok("NL", eol, i, Len(c), i, Len(c) + (IF nl THEN 1 ELSE 0)) >>
                           \o rest.toks]
        ELSE
        LET popped == PopTo(stack, col)
            stack2 == IF col > Top(stack) THEN Append(stack, col) ELSE popped
            dent   == IF col > Top(stack) THEN << Tok("INDENT", Spaces(col), i, 0, i, col) >>
                      ELSE Dedents(Len(stack) - Len(popped), i, col)
            rest   == TokLines(lines, i + 1, stack2)
        IN  IF col < Top(stack) /\ Top(popped) # col
            THEN \* IndentationError: unindent does not match any outer level
                 [ok |-> FALSE, toks |-> <<>>]
            ELSE [ok |-> rest.ok,
                  toks |-> dent \o ScanLine(c, i, col + 1)
                           \o << Tok("NEWLINE", eol, i, Len(c), i, Len(c) + 1) >>
                           \o rest.toks]

Tokenize(text) == TokLines(SplitLines(text), 1, << 0 >>)

\* ------------------------------------------- remove_comments_and_docstrings

IsTriple(string) == string # <<>> /\ string[1] \in TripleQuoted

RECURSIVE StripFrom_NoColumnReset(_, _, _, _, _)
\* StripFrom without "if start_line > last_lineno: last_col = 0"
StripFrom_NoColumnReset(toks, i, prev_toktype, last_lineno, last_col) ==
    IF i > Len(toks) THEN <<>>
    ELSE
    LET tok  == toks[i]
        pad  == IF tok.sc > last_col THEN Spaces(tok.sc - last_col) ELSE <<>>
        emit == IF tok.type = "COMMENT" THEN <<>>
                ELSE IF tok.type = "STRING"
                     THEN IF prev_toktype # "INDENT" /\ ~IsTriple(tok.string)
                          THEN tok.string ELSE <<>>
                ELSE tok.string
    IN  pad \o emit \o StripFrom_NoColumnReset(toks, i + 1, tok.type, tok.el, tok.ec)

RECURSIVE StripFrom(_, _, _, _, _)
\* the loop over the tokens: what is appended to clean_code_lines from token i on
StripFrom(toks, i, prev_toktype, last_lineno, last_col) ==
    IF i > Len(toks) THEN <<>>
    ELSE
    LET tok  == toks[i]
        lc   == IF tok.sl > last_lineno THEN 0 ELSE last_col
        pad  == IF tok.sc > lc THEN Spaces(tok.sc - lc) ELSE <<>>
        emit == IF tok.type = "COMMENT" THEN <<>>
                ELSE IF tok.type = "STRING"
                     THEN IF prev_toktype # "INDENT" /\ ~IsTriple(tok.string)
                          THEN tok.string ELSE <<>>
                ELSE tok.string
    IN  pad \o emit \o StripFrom(toks, i + 1, tok.type, tok.el, tok.ec)

\* the result: the text returned, or raised when the tokenizer raises
remove_comments_and_docstrings(text) ==
    LET r == Tokenize(text)
    IN  IF r.ok THEN [raised |-> FALSE, text |-> StripFrom(r.toks, 1, "INDENT", -1, 0)]
        ELSE [raised |-> TRUE, text |-> <<>>]

\* -------------------------------------------------------------- ast.parse

NoValue == [k |-> "None", s |-> ""]
StrContent(a) == IF a \in {"'a'", "'''a'''"} THEN "a" ELSE "b"
\* an expression: a string constant or a name
ExprOf(a) == IF a \in StringAtoms THEN [k |-> "Str", s |-> StrContent(a)] ELSE [k |-> "Name", s |-> a]
Node(kind, value, body) == [kind |-> kind, value |-> value, body |-> body]
HeaderKind(a) ==
    CASE a = "def" -> "FunctionDef"
      [] a = "adef" -> "AsyncFunctionDef"
      [] a = "class" -> "ClassDef"
      [] OTHER -> "If"

ParseFail == [ok |-> FALSE, node |-> Node("Pass", NoValue, <<>>), body |-> <<>>, next |-> 0]
AtomOf(tok) == IF tok.string = <<>> THEN "" ELSE tok.string[1]
IsOperand(tok) == tok.type = "STRING" \/ AtomOf(tok) = "x"

\* a simple statement and the NEWLINE that ends it: x, pass, a literal, x = operand
ParseSimple(toks, i) ==
    LET a == AtomOf(toks[i])
    IN  IF i + 1 > Len(toks) THEN ParseFail
        ELSE IF a = "x" /\ AtomOf(toks[i + 1]) = "="
        THEN IF i + 3 <= Len(toks) /\ IsOperand(toks[i + 2]) /\ toks[i + 3].type = "NEWLINE"
             THEN [ok |-> TRUE, node |-> Node("Assign", ExprOf(AtomOf(toks[i + 2])), <<>>),
                   body |-> <<>>, next |-> i + 4]
             ELSE ParseFail
        ELSE IF toks[i + 1].type # "NEWLINE" THEN ParseFail
        ELSE IF a = "pass"
        THEN [ok |-> TRUE, node |-> Node("Pass", NoValue, <<>>), body |-> <<>>, next |-> i + 2]
        ELSE IF IsOperand(toks[i])
        THEN [ok |-> TRUE, node |-> Node("Expr", ExprOf(a), <<>>), body |-> <<>>, next |-> i + 2]
        ELSE ParseFail

RECURSIVE ParseStmts(_, _)
RECURSIVE ParseStmt(_, _)
\* the statements of a block, up to its DEDENT or the ENDMARKER
ParseStmts(toks, i) ==
    IF toks[i].type \in {"DEDENT", "ENDMARKER"}
    THEN [ok |-> TRUE, node |-> ParseFail.node, body |-> <<>>, next |-> i]
    ELSE LET s == ParseStmt(toks, i)
         IN  IF ~s.ok THEN ParseFail
             ELSE LET r == ParseStmts(toks, s.next)
                  IN  IF ~r.ok THEN ParseFail
                      ELSE [ok |-> TRUE, node |-> ParseFail.node,
                            body |-> << s.node >> \o r.body, next |-> r.next]

\* one statement: a header with an indented block or with a simple statement
\* on its own line, or a simple statement
ParseStmt(toks, i) ==
    LET a == AtomOf(toks[i])
    IN  IF a \in HeaderAtoms
        THEN IF toks[i + 1].type = "NEWLINE"
             THEN IF toks[i + 2].type # "INDENT" THEN ParseFail
                  ELSE LET blk == ParseStmts(toks, i + 3)
                       IN  IF blk.ok /\ blk.body # <<>> /\ toks[blk.next].type = "DEDENT"
                           THEN [ok |-> TRUE, node |-> Node(HeaderKind(a), NoValue, blk.body),
                                 body |-> <<>>, next |-> blk.next + 1]
                           ELSE ParseFail
             ELSE LET s == ParseSimple(toks, i + 1)
                  IN  IF s.ok
                      THEN [ok |-> TRUE, node |-> Node(HeaderKind(a), NoValue, << s.node >>),
                            body |-> <<>>, next |-> s.next]
                      ELSE ParseFail
        ELSE IF toks[i].type \in {"NAME", "STRING"} THEN ParseSimple(toks, i)
        ELSE ParseFail

\* ast.parse(code): the Module node, or a SyntaxError (IndentationError is one)
Parse(text) ==
    LET r   == Tokenize(text)
        sig == SelectSeq(r.toks, LAMBDA t : t.type \notin {"NL", "COMMENT"})
        m   == ParseStmts(sig, 1)
    IN  IF r.ok /\ m.ok /\ sig[m.next].type = "ENDMARKER"
        THEN [ok |-> TRUE, tree |-> Node("Module", NoValue, m.body)]
        ELSE [ok |-> FALSE, tree |-> Node("Module", NoValue, <<>>)]

IsValidSource(text) == Parse(text).ok

\* --------------------------------------------------- FunctionBodyRemover

\* ast.parse("pass").body[0]
PassStmt == Node("Pass", NoValue, <<>>)

\* node.body and isinstance(node.body[0], ast.Expr)
\*           and isinstance(node.body[0].value, ast.Str)
HasDocstring(node) ==
    /\ node.body # <<>>
    /\ node.body[1].kind = "Expr"
    /\ node.body[1].value.k = "Str"

\* ReducedBody without the placeholder statement
ReducedBody_NoPass(node) ==
    IF HasDocstring(node) THEN << node.body[1] >> ELSE <<>>

ReducedBody(node) ==
    IF HasDocstring(node) THEN << node.body[1], PassStmt >> ELSE << PassStmt >>

RECURSIVE visit(_)
RECURSIVE generic_visit(_)
RECURSIVE visit_FunctionDef(_)
RECURSIVE visit_AsyncFunctionDef(_)

\* NodeTransformer.generic_visit: every child statement is replaced by its visit
generic_visit(node) ==
    [node EXCEPT !.body = [j \in 1..Len(node.body) |-> visit(node.body[j])]]

visit_FunctionDef(node) == generic_visit([node EXCEPT !.body = ReducedBody(node)])

\* the transformer without its visit_AsyncFunctionDef method
visit_AsyncFunctionDef_Missing(node) == generic_visit(node)

visit_AsyncFunctionDef(node) == generic_visit([node EXCEPT !.body = ReducedBody(node)])

\* NodeVisitor.visit: dispatch on the class name of the node
visit(node) ==
    CASE node.kind = "FunctionDef" -> visit_FunctionDef(node)
      [] node.kind = "AsyncFunctionDef" -> visit_AsyncFunctionDef(node)
      [] OTHER -> generic_visit(node)

\* ------------------------------------------------------------- ast.unparse

IndentUnit == << SP, SP, SP, SP >>

RECURSIVE Indent(_)
Indent(depth) == IF depth <= 0 THEN <<>> ELSE IndentUnit \o Indent(depth - 1)

HeaderAtom(kind) ==
    CASE kind = "FunctionDef" -> "def"
      [] kind = "AsyncFunctionDef" -> "adef"
      [] kind = "ClassDef" -> "class"
      [] OTHER -> "if"

SingleAtom(s) == IF s = "a" THEN "'a'" ELSE "'b'"
TripleAtom(s) == IF s = "a" THEN "'''a'''" ELSE "'''b'''"
OperandAtom(value) == IF value.k = "Str" THEN SingleAtom(value.s) ELSE value.s

RECURSIVE UnparseLines(_, _, _, _)
\* the lines written for the statements j.. of a body at a depth; docable
\* says the body is one of a module, function or class, whose leading
\* string statement is written as a docstring
UnparseLines(body, j, depth, docable) ==
    IF j > Len(body) THEN <<>>
    ELSE
    LET st == body[j]
        here ==
          CASE st.kind \in {"FunctionDef", "AsyncFunctionDef", "ClassDef"} ->
                 << <<>>, Indent(depth) \o << HeaderAtom(st.kind) >> >>
                 \o UnparseLines(st.body, 1, depth + 1, TRUE)
            [] st.kind = "If" ->
                 << Indent(depth) \o << "if" >> >> \o UnparseLines(st.body, 1, depth + 1, FALSE)
            [] st.kind = "Pass" -> << Indent(depth) \o << "pass" >> >>
            [] st.kind = "Assign" ->
                 << Indent(depth) \o << "x", SP, "=", SP, OperandAtom(st.value) >> >>
            [] OTHER ->
                 << Indent(depth) \o
                    << IF st.value.k = "Str" /\ docable /\ j = 1
                       THEN TripleAtom(st.value.s) ELSE OperandAtom(st.value) >> >>
    IN  here \o UnparseLines(body, j + 1, depth, docable)

RECURSIVE JoinLines(_)
JoinLines(ls) ==
    IF ls = <<>> THEN <<>>
    ELSE IF Len(ls) = 1 THEN ls[1]
    ELSE ls[1] \o << LF >> \o JoinLines(Tail(ls))

\* ast.unparse(tree): no line break before the first line, none after the last
Unparse(t) ==
    LET ls == UnparseLines(t.body, 1, 0, TRUE)
    IN  JoinLines(IF ls # <<>> /\ ls[1] = <<>> THEN Tail(ls) ELSE ls)

\* ---------------------------------------------------- remove_function_body

\* remove_function_body whose except branch returns the empty text
remove_function_body_DropsText(text) ==
    LET p == Parse(text)
    IN  IF ~p.ok THEN [parsed |-> FALSE, tree |-> p.tree, text |-> <<>>]
        ELSE LET t == visit(p.tree)
             IN  [parsed |-> TRUE, tree |-> t, text |-> Unparse(t)]

\* the text returned and the tree that was rendered (the input text and no
\* tree when ast.parse raises SyntaxError)
remove_function_body(text) ==
    LET p == Parse(text)
    IN  IF ~p.ok THEN [parsed |-> FALSE, tree |-> p.tree, text |-> text]
        ELSE LET t == visit(p.tree)
             IN  [parsed |-> TRUE, tree |-> t, text |-> Unparse(t)]

\* ------------------------------------------------------------ source files

NoText == << "<none>" >>
NoTree == Node("None", NoValue, <<>>)

\* what a line of a source file holds after its indentation: nothing, a
\* comment, a statement, a statement and a comment, a header, a header
\* with its one-statement body; "x =" lacks its right-hand side and is no
\* statement
StripContents ==
    { <<>>, << "#" >>, << "x" >>, << "x", SP, SP, "#" >>, << "'a'" >>, << "'''b'''" >>,
      << "x", SP, "=", SP, "'''b'''" >>, << "def" >>, << "class" >>, << "if" >>,
      << "def", SP, "'a'" >> }
BodyContents ==
    { << "'a'" >>, << "x", SP, "=", SP, "'a'" >>,
      << "def" >>, << "adef" >>, << "class" >>, << "if" >>, << "adef", SP, "'''b'''" >>,
      << "x", SP, "=" >> }
\* a file may end without a line break after one of these
FinalContents ==
    { << "x" >>, << "x", SP, SP, "#" >>, << "def", SP, "'a'" >>, << "x", SP, "=", SP, "'a'" >> }

NumLines(text) == Len(SelectSeq(text, LAMBDA a : a = LF))

RECURSIVE LastIndentOf(_, _)
\* the indentation of the last line from i down that holds a statement
LastIndentOf(lines, i) ==
    IF i = 0 THEN 0
    ELSE LET c == lines[i].c
             col == LeadingSpaces(c, 1)
         IN  IF col = Len(c) \/ c[col + 1] = "#" THEN LastIndentOf(lines, i - 1) ELSE col

LastIndent(text) == LET ls == SplitLines(text) IN LastIndentOf(ls, Len(ls))

\* The file on disk grows by one line, up to max lines: ind levels of
\* indentation, the contents c, and a line break unless the file ends here
\* without one.
EditLine(ind, c, nl, max) ==
    /\ pc = "edit"
    /\ NumLines(code) < max
    /\ nl \/ c \in FinalContents
    /\ code' = code \o Spaces(ind) \o c \o (IF nl THEN << LF >> ELSE <<>>)
    /\ pc' = IF nl THEN "edit" ELSE "closed"
    /\ UNCHANGED <<content, tree, savefile, settings, loaded, fs, ignored, arborescence, sources, template, rows, widgets>>

\* content = remove_comments_and_docstrings(content) on the file's text
RemoveComments ==
    /\ pc \in {"edit", "closed"}
    /\ LET r == remove_comments_and_docstrings(code)
       IN  /\ content' = IF r.raised THEN NoText ELSE r.text
           /\ pc' = IF r.raised THEN "raised" ELSE "stripped"
    /\ UNCHANGED <<code, tree, savefile, settings, loaded, fs, ignored, arborescence, sources, template, rows, widgets>>

\* content = remove_function_body(content) on the file's text
RemoveFunctionBody ==
    /\ pc \in {"edit", "closed"}
    /\ LET r == remove_function_body(code)
       IN  /\ content' = r.text
           /\ tree' = IF r.parsed THEN r.tree ELSE NoTree
           /\ pc' = IF r.parsed THEN "reduced" ELSE "unparsed"
    /\ UNCHANGED <<code, savefile, settings, loaded, fs, ignored, arborescence, sources, template, rows, widgets>>

InitSource ==
    /\ sources = <<>>
    /\ template = <<>>
    /\ rows = <<>>
    /\ widgets = <<>>
    /\ code = <<>>
    /\ content = NoText
    /\ tree = NoTree
    /\ pc = "edit"
    /\ savefile = <<>>
    /\ settings = <<>>
    /\ loaded = <<>>
    /\ fs = <<>>
    /\ ignored = <<>>
    /\ arborescence = <<>>

\* whether the last statement line of the text is a header awaiting its block
EndsWithHeader(text) ==
    LET sig == SelectSeq(text, LAMBDA a : a \notin {SP, LF, "#"})
    IN  sig # <<>> /\ sig[Len(sig)] \in HeaderAtoms

\* the indentation the next line of a well-indented file takes: one level
\* deeper after a header, and otherwise that of any enclosing block
ValidIndents ==
    IF EndsWithHeader(code)
    THEN { i \in {LastIndent(code) + 1} : i <= MaxIndent }
    ELSE 0 .. LastIndent(code)

NextStrip ==
    \/ \E ind \in ValidIndents, c \in StripContents, nl \in BOOLEAN :
          EditLine(ind, c, nl, MaxLines)
    \/ RemoveComments

SpecStrip == InitSource /\ [][NextStrip]_vars

NextBody ==
    \/ \E ind \in ValidIndents, c \in BodyContents, nl \in BOOLEAN :
          EditLine(ind, c, nl, MaxBodyLines)
    \/ RemoveFunctionBody

SpecBody == InitSource /\ [][NextBody]_vars

\* ------------------------------------------------- claims on the stripper

\* the tokens of a text the grammar reads: all but NL and COMMENT
SigTokens(text) == SelectSeq(Tokenize(text).toks, LAMBDA t : t.type \notin {"NL", "COMMENT"})

\* Token i of the grammar's tokens is a docstring: a string literal that is a
\* whole statement and the first one of the module, or of the block or the
\* one-line body of a def, async def or class.
InDocstringPosition(sig, i) ==
    /\ sig[i].type = "STRING"
    /\ sig[i + 1].type = "NEWLINE"
    /\ \/ i = 1
       \/ AtomOf(sig[i - 1]) \in {"def", "adef", "class"}
       \/ /\ i > 3
          /\ sig[i - 1].type = "INDENT"
          /\ AtomOf(sig[i - 3]) \in {"def", "adef", "class"}

OutputLine(ln) == LET ls == SplitLines(content) IN IF ln <= Len(ls) THEN ls[ln].c ELSE <<>>
Occurs(a, line) == \E k \in 1..Len(line) : line[k] = a

Stripped == pc = "stripped" /\ IsValidSource(code)

\* C1: stripping the stripper's output of a valid source changes nothing:
\* strip(strip(s)) = strip(s).
C1_Idempotent ==
    Stripped =>
        LET again == remove_comments_and_docstrings(content)
        IN  ~again.raised /\ again.text = content

\* C2: every triple-quoted string literal that is not a docstring (the
\* right-hand side of an assignment, say) is in the output, on its line.
C2_TripleQuotedKept ==
    Stripped =>
        LET sig == SigTokens(code)
        IN  \A i \in 1..Len(sig) :
                (sig[i].type = "STRING" /\ IsTriple(sig[i].string) /\ ~InDocstringPosition(sig, i))
                => Occurs(AtomOf(sig[i]), OutputLine(sig[i].sl))

\* C3: every docstring is removed, whatever its quotes and whatever token
\* comes before it: the output holds no string literal on a docstring's line.
C3_DocstringsRemoved ==
    Stripped =>
        LET sig == SigTokens(code)
        IN  \A i \in 1..Len(sig) :
                InDocstringPosition(sig, i)
                => \A a \in StringAtoms : ~Occurs(a, OutputLine(sig[i].sl))

RECURSIVE Skeleton(_, _)
\* What the tokens from i on leave of a text once its comments and string
\* literals are taken out: each token is separated from the token before it
\* on its line (from column 0 when it is the first) by as many spaces as
\* the columns between them, and every other token is written as it is.
Skeleton(toks, i) ==
    IF i > Len(toks) THEN <<>>
    ELSE LET t    == toks[i]
             from == IF i > 1 /\ toks[i - 1].el = t.sl THEN toks[i - 1].ec ELSE 0
         IN  Spaces(t.sc - from)
             \o (IF t.type \in {"COMMENT", "STRING"} THEN <<>> ELSE t.string)
             \o Skeleton(toks, i + 1)

WithoutStrings(text) == SelectSeq(text, LAMBDA a : a \notin StringAtoms)

\* C4: the output of the stripper on a valid source holds no comment token,
\* and all tokens but the comments and the string literals are in it as they
\* were, in their order, as far from the token before as in the input.
C4_TokensKept ==
    Stripped =>
        /\ Tokenize(content).ok
        /\ \A t \in Range(Tokenize(content).toks) : t.type # "COMMENT"
        /\ WithoutStrings(content) = Skeleton(Tokenize(code).toks, 1)

\* a source with a comment after a statement, a comment of its own line and
\* a statement below the first line of a block has been stripped
C4_Witness ==
    /\ Stripped
    /\ content # code
    /\ \E i \in 1..Len(code) - 3 : code[i] = "x" /\ code[i + 1] = SP /\ code[i + 3] = "#"
    /\ \E i \in 1..Len(code) - 3 :
          code[i] = LF /\ code[i + 1] = SP /\ code[i + 2] = "#"
    /\ \E i \in 1..Len(code) - 2 : code[i] \in HeaderAtoms /\ code[i + 1] = LF

\* -------------------------------------------------- claims on the reducer

IsFunction(node) == node.kind \in {"FunctionDef", "AsyncFunctionDef"}

RECURSIVE PathsOf(_)
\* the paths (child indices from the root) of all nodes below a node
PathsOf(node) ==
    UNION { { << j >> \o p : p \in ({ <<>> } \cup PathsOf(node.body[j])) } : j \in 1..Len(node.body) }

RECURSIVE NodeAt(_, _)
NodeAt(node, path) == IF path = <<>> THEN node ELSE NodeAt(node.body[Head(path)], Tail(path))

HasPath(node, path) == path \in PathsOf(node)

\* some node strictly above the path's node is a function
InsideFunction(root, path) ==
    \E k \in 0..(Len(path) - 1) : IsFunction(NodeAt(root, SubSeq(path, 1, k)))

Reduced == pc = "reduced"
SourceTree == Parse(code).tree

\* C5: every function or method of the input that is not inside another
\* function is, in the output tree, a function of the same kind whose body
\* is its first statement and one pass when that statement is a string
\* literal, and one pass alone otherwise; no function is left inside a
\* function body.
C5_BodiesReduced ==
    Reduced =>
        LET src == SourceTree
        IN  /\ \A p \in PathsOf(src) :
                  LET orig == NodeAt(src, p)
                  IN  (IsFunction(orig) /\ ~InsideFunction(src, p))
                      => /\ HasPath(tree, p)
                         /\ NodeAt(tree, p).kind = orig.kind
                         /\ NodeAt(tree, p).body =
                               IF HasDocstring(orig) THEN << orig.body[1], PassStmt >>
                               ELSE << PassStmt >>
            /\ \A p \in PathsOf(tree) : IsFunction(NodeAt(tree, p)) => ~InsideFunction(tree, p)

\* a function in a class or under an if, with a docstring and a function
\* nested after it, has been reduced
C5_Witness ==
    /\ Reduced
    /\ LET src == SourceTree
       IN  \E p \in PathsOf(src) :
              /\ Len(p) = 2
              /\ IsFunction(NodeAt(src, p))
              /\ src.body[p[1]].kind \in {"ClassDef", "If"}
              /\ HasDocstring(NodeAt(src, p))
              /\ \E j \in 2..Len(NodeAt(src, p).body) : IsFunction(NodeAt(src, p).body[j])

\* C6: a text that does not parse is returned as it is, and nothing is raised.
C6_UnparsedUnchanged ==
    (pc \in {"reduced", "unparsed", "raised"} /\ ~IsValidSource(code))
        => pc = "unparsed" /\ content = code

\* a text with a header that lacks its block has gone through the reducer
C6_Witness ==
    /\ pc = "unparsed"
    /\ code # <<>>
    /\ EndsWithHeader(code)
    /\ content = code

RECURSIVE AllBlocksFilled(_)
\* every compound statement below the node has a statement in its body
AllBlocksFilled(node) ==
    \A j \in 1..Len(node.body) :
        /\ node.body[j].kind \in {"FunctionDef", "AsyncFunctionDef", "ClassDef", "If"}
              => node.body[j].body # <<>>
        /\ AllBlocksFilled(node.body[j])

RECURSIVE OutsideFunctions(_)
\* the tree without what is inside its functions
OutsideFunctions(node) ==
    IF IsFunction(node) THEN [node EXCEPT !.body = <<>>]
    ELSE [node EXCEPT !.body = [j \in 1..Len(node.body) |-> OutsideFunctions(node.body[j])]]

\* C7: the rendered tree has no empty block, and outside the function
\* bodies it holds the statements of the input, in their order.
C7_TreeValid ==
    Reduced =>
        /\ AllBlocksFilled(tree)
        /\ OutsideFunctions(tree) = OutsideFunctions(SourceTree)

\* a source with a class, a function in it and a statement after it,
\* whose function body changed
C7_Witness ==
    /\ Reduced
    /\ tree # SourceTree
    /\ Len(tree.body) >= 2
    /\ tree.body[1].kind \in {"ClassDef", "If"}
    /\ \E j \in 1..Len(tree.body[1].body) : IsFunction(tree.body[1].body[j])

\* ------------------------------------------------- remove_extra_line_jumps

RECURSIVE RunOf(_, _, _)
\* the number of atoms a in a row in text t from index i on
RunOf(t, a, i) == IF i <= Len(t) /\ t[i] = a THEN 1 + RunOf(t, a, i + 1) ELSE 0

RECURSIVE Repeat(_, _)
Repeat(a, n) == IF n <= 0 THEN <<>> ELSE << a >> \o Repeat(a, n - 1)

RECURSIVE CollapseFrom_ToOne(_, _)
\* CollapseFrom with the replacement '\n' instead of '\n\n'
CollapseFrom_ToOne(t, i) ==
    IF i > Len(t) THEN <<>>
    ELSE IF t[i] = LF
         THEN LET r == RunOf(t, LF, i)
              IN  (IF r >= 3 THEN << LF >> ELSE Repeat(LF, r)) \o CollapseFrom_ToOne(t, i + r)
    ELSE << t[i] >> \o CollapseFrom_ToOne(t, i + 1)

RECURSIVE CollapseFrom(_, _)
\* re.sub(r'\n{3,}', '\n\n', code) from index i on: leftmost, greedy
CollapseFrom(t, i) ==
    IF i > Len(t) THEN <<>>
    ELSE IF t[i] = LF
         THEN LET r == RunOf(t, LF, i)
              IN  (IF r >= 3 THEN << LF, LF >> ELSE Repeat(LF, r)) \o CollapseFrom(t, i + r)
    ELSE << t[i] >> \o CollapseFrom(t, i + 1)

remove_extra_line_jumps(text) == CollapseFrom(text, 1)

\* The file on disk grows by one character: a letter or a line break.
EditAtom(a) ==
    /\ pc = "edit"
    /\ Len(code) < MaxChars
    /\ code' = Append(code, a)
    /\ UNCHANGED <<content, tree, pc, savefile, settings, loaded, fs, ignored, arborescence, sources, template, rows, widgets>>

\* content = remove_extra_line_jumps(content) on the file's text
RemoveExtraLineJumps ==
    /\ pc = "edit"
    /\ content' = remove_extra_line_jumps(code)
    /\ pc' = "collapsed"
    /\ UNCHANGED <<code, tree, savefile, settings, loaded, fs, ignored, arborescence, sources, template, rows, widgets>>

NextJumps ==
    \/ \E a \in {"x", LF} : EditAtom(a)
    \/ RemoveExtraLineJumps

SpecJumps == InitSource /\ [][NextJumps]_vars

\* ------------------------------------------------ claims on the collapser

RECURSIVE EmptyRun(_, _)
\* the number of empty lines in a row from line i on
EmptyRun(ls, i) == IF i <= Len(ls) /\ ls[i].c = <<>> THEN 1 + EmptyRun(ls, i + 1) ELSE 0

RECURSIVE LineRuns(_, _)
\* the lines from i on, each run of empty lines counted as one entry
LineRuns(ls, i) ==
    IF i > Len(ls) THEN <<>>
    ELSE IF ls[i].c = <<>>
         THEN << [blank |-> EmptyRun(ls, i), c |-> <<>>, nl |-> TRUE] >>
              \o LineRuns(ls, i + EmptyRun(ls, i))
    ELSE << [blank |-> 0, c |-> ls[i].c, nl |-> ls[i].nl] >> \o LineRuns(ls, i + 1)

\* C8, as claimed: every run of 3 or more blank lines becomes one blank
\* line, a run of 2 blank lines or fewer stays, and so does the other text.
C8_BlankLineRuns ==
    pc = "collapsed" =>
        LET before == LineRuns(SplitLines(code), 1)
        IN  LineRuns(SplitLines(content), 1) =
                [k \in 1..Len(before) |->
                    IF before[k].blank >= 3 THEN [before[k] EXCEPT !.blank = 1] ELSE before[k]]

RECURSIVE BreakRuns(_, _)
\* the atoms from i on, each run of line breaks counted as one entry
BreakRuns(t, i) ==
    IF i > Len(t) THEN <<>>
    ELSE IF t[i] = LF
         THEN << [a |-> LF, n |-> RunOf(t, LF, i)] >> \o BreakRuns(t, i + RunOf(t, LF, i))
    ELSE << [a |-> t[i], n |-> 1] >> \o BreakRuns(t, i + 1)

\* C8, amended: every run of 3 or more line breaks becomes two line breaks
\* (after a line of text: 2 or more blank lines become one), a run of 1 or
\* 2 line breaks stays, and so does the other text.
C8_LineBreakRuns ==
    pc = "collapsed" =>
        LET before == BreakRuns(code, 1)
        IN  BreakRuns(content, 1) =
                [k \in 1..Len(before) |->
                    IF before[k].a = LF /\ before[k].n >= 3
                    THEN [before[k] EXCEPT !.n = 2] ELSE before[k]]

\* a text with two blank lines between two lines of text has been collapsed
C8_Witness ==
    /\ pc = "collapsed"
    /\ content # code
    /\ \E i \in 1..Len(code) - 4 :
          /\ code[i] = "x"
          /\ RunOf(code, LF, i + 1) = 3
          /\ code[i + 4] = "x"

\* ---------------------------------------------------------------- settings

DEFAULT_IGNORED_FOLDERS ==
    { <<".git">>, <<".idea">>, <<"__pycache__">>, <<"venv">>, <<"img">>, <<"assessment">> }
DEFAULT_IGNORED_FILES ==
    { <<".gitignore">>, <<"treegen4gpt.py">>, <<"README.md">>, <<"LICENSE">>, <<"requirements.txt">> }

\* the placeholder save_settings writes for a line break of the description
NewlineMark == "<newline>"

\* Path(SAVE_FILE_NAME).exists() is false
NoFile == << "<missing>" >>
\* load_settings has not been called
NotLoaded == [result |-> "not loaded"]
\* the None load_settings returns
None == [result |-> "None"]

DescriptionAtoms == {"a", SP, LF, NewlineMark}
\* the paths of the files of the project: one of them has a space in it
FilePaths == { <<"a.py">>, <<"d", SP, "b.py">> }
FolderNames == { <<"venv">>, <<"build">> }
FileNames == { <<"LICENSE">> }

Texts(atoms, n) == UNION { [1..k -> atoms] : k \in 0..n }

\* str(True), str(False)
StrBool(b) == IF b THEN "True" ELSE "False"

Digits == << "0", "1", "2", "3", "4", "5", "6", "7", "8", "9" >>
\* str(n) of a number below 10
StrInt(n) == << Digits[n + 1] >>
\* int(s) of a one-digit text
Int_(s) == CHOOSE n \in 0..9 : s = << Digits[n + 1] >>

\* str.replace of one atom by another
ReplaceAtom(t, old, new) == [i \in 1..Len(t) |-> IF t[i] = old THEN new ELSE t[i]]

RECURSIVE Join(_, _)
\* sep.join(parts)
Join(parts, sep) ==
    IF parts = <<>> THEN <<>>
    ELSE IF Len(parts) = 1 THEN parts[1]
    ELSE parts[1] \o sep \o Join(Tail(parts), sep)

\* the orders in which a set can be iterated
Orders(S) ==
    { o \in [1..Cardinality(S) -> S] : \A i, j \in 1..Cardinality(S) : i # j => o[i] # o[j] }

\* the order in which a dict is iterated: any fixed one
RECURSIVE KeyOrder(_)
KeyOrder(S) ==
    IF S = {} THEN <<>>
    ELSE LET k == CHOOSE k \in S : TRUE IN << k >> \o KeyOrder(S \ {k})

RECURSIVE FileLines(_, _, _)
\* the "for file in selected_files" loop of save_settings
FileLines(s, order, i) ==
    IF i > Len(order) THEN <<>>
    ELSE LET file == order[i]
             line == IF file \in DOMAIN s.remove_comments /\ file \in DOMAIN s.remove_functions
                     THEN file \o << SP, StrBool(s.selected_files[file]),
                                     SP, StrBool(s.remove_comments[file]),
                                     SP, StrBool(s.remove_functions[file]), LF >>
                     ELSE <<>>
         IN  line \o FileLines(s, order, i + 1)

\* the text save_settings writes, the two sets iterated in the orders fo, fi
save_settings(s, fo, fi) ==
    ReplaceAtom(s.description, LF, NewlineMark) \o << LF >>
    \o StrInt(Cardinality(DOMAIN s.selected_files)) \o << LF >>
    \o FileLines(s, KeyOrder(DOMAIN s.selected_files), 1)
    \o Join(fo, << ",", SP >>) \o << LF >>
    \o Join(fi, << ",", SP >>) \o << LF >>

\* f.readline() at position pos: the line with its line break, and the
\* position after it; the empty text at the end of the file
ReadLine(t, pos) ==
    IF pos > Len(t) THEN [line |-> <<>>, next |-> pos]
    ELSE LET k == IndexOf(t, LF, pos)
         IN  IF k = 0 THEN [line |-> SubSeq(t, pos, Len(t)), next |-> Len(t) + 1]
             ELSE [line |-> SubSeq(t, pos, k), next |-> k + 1]

Whitespace == {SP, LF}

RECURSIVE LStrip(_)
LStrip(t) == IF t # <<>> /\ Head(t) \in Whitespace THEN LStrip(Tail(t)) ELSE t

RECURSIVE RStrip(_)
RStrip(t) ==
    IF t # <<>> /\ t[Len(t)] \in Whitespace THEN RStrip(SubSeq(t, 1, Len(t) - 1)) ELSE t

\* str.strip()
Strip(t) == RStrip(LStrip(t))

RECURSIVE SplitWords(_, _, _)
\* str.split(): the words between runs of whitespace
SplitWords(t, i, word) ==
    IF i > Len(t) THEN (IF word = <<>> THEN <<>> ELSE << word >>)
    ELSE IF t[i] \in Whitespace
         THEN (IF word = <<>> THEN <<>> ELSE << word >>) \o SplitWords(t, i + 1, <<>>)
    ELSE SplitWords(t, i + 1, Append(word, t[i]))

RECURSIVE SplitCommaSpace(_, _, _)
\* str.split(', ')
SplitCommaSpace(t, i, part) ==
    IF i > Len(t) THEN << part >>
    ELSE IF t[i] = "," /\ i < Len(t) /\ t[i + 1] = SP
         THEN << part >> \o SplitCommaSpace(t, i + 2, <<>>)
    ELSE SplitCommaSpace(t, i + 1, Append(part, t[i]))

NoFlags == [file \in {} |-> TRUE]

\* dict[key] = value
SetItem(d, key, value) == [k \in DOMAIN d \cup {key} |-> IF k = key THEN value ELSE d[k]]

RECURSIVE ReadFiles(_, _, _, _)
\* the "for i in range(num_files)" loop of load_settings
ReadFiles(t, pos, n, acc) ==
    IF n <= 0 THEN [acc |-> acc, next |-> pos]
    ELSE LET r == ReadLine(t, pos)
             line == SplitWords(Strip(r.line), 1, <<>>)
             acc2 == IF Len(line) >= 4
                     THEN [selected_files |-> SetItem(acc.selected_files, line[1], line[2] = << "True" >>),
                           remove_comments |-> SetItem(acc.remove_comments, line[1], line[3] = << "True" >>),
                           remove_functions |-> SetItem(acc.remove_functions, line[1], line[4] = << "True" >>)]
                     ELSE acc
         IN  ReadFiles(t, r.next, n - 1, acc2)

\* int(s) succeeds
IsInt(s) == \E n \in 0..9 : s = << Digits[n + 1] >>

\* load_settings leaves with the ValueError of int()
ValueError == [result |-> "ValueError"]

\* what load_settings returns when the save file holds the text file
load_settings(file) ==
    IF file = NoFile THEN None
    ELSE IF ~IsInt(Strip(ReadLine(file, ReadLine(file, 1).next).line)) THEN ValueError
    ELSE LET l1 == ReadLine(file, 1)
             l2 == ReadLine(file, l1.next)
             fl == ReadFiles(file, l2.next, Int_(Strip(l2.line)),
                             [selected_files |-> NoFlags, remove_comments |-> NoFlags,
                              remove_functions |-> NoFlags])
             l3 == ReadLine(file, fl.next)
             l4 == ReadLine(file, l3.next)
             ignored_folders_line == Strip(l3.line)
             ignored_files_line == Strip(l4.line)
         IN  [description |-> ReplaceAtom(Strip(l1.line), NewlineMark, LF),
              selected_files |-> fl.acc.selected_files,
              remove_comments |-> fl.acc.remove_comments,
              remove_functions |-> fl.acc.remove_functions,
              ignored_folders |-> IF ignored_folders_line # <<>>
                                  THEN Range(SplitCommaSpace(ignored_folders_line, 1, <<>>))
                                  ELSE DEFAULT_IGNORED_FOLDERS,
              ignored_files |-> IF ignored_files_line # <<>>
                                THEN Range(SplitCommaSpace(ignored_files_line, 1, <<>>))
                                ELSE DEFAULT_IGNORED_FILES]

\* the selection states: a file is unknown, or has its include flag alone
\* (declined at the prompt), or has its three flags
SelectionStates ==
    { [selected_files |-> sel, remove_comments |-> rc, remove_functions |-> rf] :
        sel \in UNION { [S -> BOOLEAN] : S \in SUBSET FilePaths },
        rc \in UNION { [S -> BOOLEAN] : S \in SUBSET FilePaths },
        rf \in UNION { [S -> BOOLEAN] : S \in SUBSET FilePaths } }

InitSettings ==
    /\ sources = <<>>
    /\ template = <<>>
    /\ rows = <<>>
    /\ widgets = <<>>
    /\ code = <<>>
    /\ content = NoText
    /\ tree = NoTree
    /\ fs = <<>>
    /\ ignored = <<>>
    /\ arborescence = <<>>
    /\ pc = "ready"
    /\ savefile = NoFile
    /\ loaded = NotLoaded
    /\ \E description \in Texts(DescriptionAtoms, MaxDescription),
          sel \in SelectionStates,
          ignored_folders \in SUBSET FolderNames,
          ignored_files \in SUBSET FileNames :
          /\ DOMAIN sel.remove_comments = DOMAIN sel.remove_functions
          /\ DOMAIN sel.remove_comments \subseteq DOMAIN sel.selected_files
          /\ \A file \in DOMAIN sel.selected_files \ DOMAIN sel.remove_comments :
                ~sel.selected_files[file]
          /\ settings = [description |-> description,
                         selected_files |-> sel.selected_files,
                         remove_comments |-> sel.remove_comments,
                         remove_functions |-> sel.remove_functions,
                         ignored_folders |-> ignored_folders,
                         ignored_files |-> ignored_files]

\* save_settings(description, selected_files, ..., ignored_files)
SaveSettings ==
    /\ pc = "ready"
    /\ \E fo \in Orders(settings.ignored_folders), fi \in Orders(settings.ignored_files) :
          savefile' = save_settings(settings, fo, fi)
    /\ pc' = "saved"
    /\ UNCHANGED <<code, content, tree, settings, loaded, fs, ignored, arborescence, sources, template, rows, widgets>>

\* saved_settings = load_settings()
LoadSettings ==
    /\ pc \in {"ready", "saved", "damaged"}
    /\ loaded' = load_settings(savefile)
    /\ pc' = "loaded"
    /\ UNCHANGED <<code, content, tree, savefile, settings, fs, ignored, arborescence, sources, template, rows, widgets>>

NextSettings ==
    \/ SaveSettings
    \/ LoadSettings

SpecSettings == InitSettings /\ [][NextSettings]_vars

\* ------------------------------------------------- claims on the settings

\* C9: load_settings called right after save_settings returns the saved
\* description, the saved three flag maps and the saved two exclusion sets.
C9_RoundTrip ==
    (pc = "loaded" /\ savefile # NoFile) => loaded = settings

\* ------------------------------------------------------------ arborescence

ALLOWED_EXTENSIONS ==
    { ".py", ".pyw", ".pyx", ".pyi", ".pyd", ".pxd", ".pxi", ".pyp", ".pyt", ".py3",
      ".pyde", ".pyst", ".pyz", ".pyc" }

\* names are a stem, or a stem and an extension
DirNames == { <<"venv">>, <<"lib", ".py">> }
ItemNames == { <<"lib", ".py">>, <<"b", ".txt">> }

\* the directory get_arborescence is called on: Path('.')
Root == 0

\* the directories of the file system fs: the root and the nodes made as such
Dirs(nodes) == {Root} \cup { i \in 1..Len(nodes) : nodes[i].kind = "dir" }

\* any(item.name.endswith(ext) for ext in ALLOWED_EXTENSIONS)
HasAllowedExtension(name) == name[Len(name)] \in ALLOWED_EXTENSIONS

RECURSIVE get_arborescence_ListsIgnored(_, _, _, _, _, _)
\* get_arborescence without the test "item.name not in ignored_folders"
get_arborescence_ListsIgnored(nodes, path, k, ignored_folders, ignored_files, indent) ==
    IF k > Len(nodes) THEN <<>>
    ELSE LET item == nodes[k]
             entry == [indent |-> indent, name |-> item.name, item |-> k]
             rest == get_arborescence_ListsIgnored(nodes, path, k + 1, ignored_folders, ignored_files, indent)
         IN  IF item.parent # path THEN rest
             ELSE IF item.name \in ignored_files THEN rest
             ELSE IF item.kind = "dir"
                  THEN << entry >>
                       \o get_arborescence_ListsIgnored(nodes, k, k + 1, ignored_folders, ignored_files, indent + 1)
                       \o rest
             ELSE IF item.kind = "file" /\ HasAllowedExtension(item.name)
                  THEN << entry >> \o rest
             ELSE rest

RECURSIVE get_arborescence(_, _, _, _, _, _)
\* the entries get_arborescence lists for directory path, its items taken
\* from node k on in the order of the directory (path.iterdir())
get_arborescence(nodes, path, k, ignored_folders, ignored_files, indent) ==
    IF k > Len(nodes) THEN <<>>
    ELSE LET item == nodes[k]
             entry == [indent |-> indent, name |-> item.name, item |-> k]
             rest == get_arborescence(nodes, path, k + 1, ignored_folders, ignored_files, indent)
         IN  IF item.parent # path THEN rest
             ELSE IF item.name \in ignored_files THEN rest
             ELSE IF item.kind = "dir" /\ item.name \notin ignored_folders
                  THEN << entry >>
                       \o get_arborescence(nodes, k, k + 1, ignored_folders, ignored_files, indent + 1)
                       \o rest
             ELSE IF item.kind = "file" /\ HasAllowedExtension(item.name)
                  THEN << entry >> \o rest
             ELSE rest

RECURSIVE ArborescenceText(_, _)
\* the text of the listing: f"{'  ' * indent}- {item.name}\n" for each entry
ArborescenceText(entries, i) ==
    IF i > Len(entries) THEN <<>>
    ELSE Repeat("  ", entries[i].indent) \o << "- " >> \o entries[i].name \o << LF >>
         \o ArborescenceText(entries, i + 1)

InitArbo ==
    /\ sources = <<>>
    /\ template = <<>>
    /\ rows = <<>>
    /\ widgets = <<>>
    /\ code = <<>>
    /\ content = NoText
    /\ tree = NoTree
    /\ savefile = NoFile
    /\ settings = <<>>
    /\ loaded = NotLoaded
    /\ fs = <<>>
    /\ ignored = <<>>
    /\ arborescence = <<>>
    /\ pc = "ready"

\* a new item appears in directory parent; the directory lists it last
CreateItem(parent, name, kind) ==
    /\ pc = "ready"
    /\ Len(fs) < MaxNodes
    /\ parent \in Dirs(fs)
    /\ \A i \in 1..Len(fs) : fs[i].parent = parent => fs[i].name # name
    /\ fs' = Append(fs, [name |-> name, kind |-> kind, parent |-> parent])
    /\ UNCHANGED <<code, content, tree, pc, savefile, settings, loaded, ignored, arborescence, sources, template, rows, widgets>>

CreateDir(parent, name) == CreateItem(parent, name, "dir")

CreateFile(parent, name) == CreateItem(parent, name, "file")

\* arborescence = get_arborescence(Path('.'), ignored_folders, ignored_files)
GetArborescence(ignored_folders, ignored_files) ==
    /\ pc = "ready"
    /\ ignored' = [folders |-> ignored_folders, files |-> ignored_files]
    /\ arborescence' = get_arborescence(fs, Root, 1, ignored_folders, ignored_files, 0)
    /\ pc' = "listed"
    /\ UNCHANGED <<code, content, tree, savefile, settings, loaded, fs, sources, template, rows, widgets>>

NextArbo ==
    \/ \E parent \in 0..MaxNodes, name \in DirNames : CreateDir(parent, name)
    \/ \E parent \in 0..MaxNodes, name \in ItemNames : CreateFile(parent, name)
    \/ \E ignored_folders \in SUBSET DirNames, ignored_files \in SUBSET ItemNames :
          GetArborescence(ignored_folders, ignored_files)

SpecArbo == InitArbo /\ [][NextArbo]_vars

\* ---------------------------------------------- claims on the arborescence

\* item i is a directory named in the directory exclusion set
IsExcludedDir(i) == fs[i].kind = "dir" /\ fs[i].name \in ignored.folders

RECURSIVE BelowExcludedDir(_)
\* item i is below a directory named in the directory exclusion set
BelowExcludedDir(i) ==
    /\ fs[i].parent # Root
    /\ (IsExcludedDir(fs[i].parent) \/ BelowExcludedDir(fs[i].parent))

\* C10: the listing has no entry for a directory named in the directory
\* exclusion set, and none for a file or directory below such a directory.
C10_ExcludedSubtreesAbsent ==
    pc = "listed" =>
        \A e \in 1..Len(arborescence) :
            LET i == arborescence[e].item
            IN  ~IsExcludedDir(i) /\ ~BelowExcludedDir(i)

\* a listing was made of a tree where an excluded directory holds a file
\* with a recognized suffix, and the listing is not empty
C10_Witness ==
    /\ pc = "listed"
    /\ arborescence # <<>>
    /\ \E i \in 1..Len(fs) :
          /\ fs[i].kind = "file"
          /\ HasAllowedExtension(fs[i].name)
          /\ fs[i].name \notin ignored.files
          /\ BelowExcludedDir(i)

\* ---------------------------------------------------------- write_template

\* the opening and the closing line of a fenced block: three backquotes,
\* written here with tildes
FenceOpen == "~~~py"
FenceClose == "~~~"
EntryMark == "- "

\* a character of the listing; item is the file or directory whose listing
\* entry the character starts (on the "- " of the entry), 0 elsewhere
Char(a, item) == [a |-> a, item |-> item]

\* text that is no entry of the listing
Plain(t) == [i \in 1..Len(t) |-> Char(t[i], 0)]

RECURSIVE ListingText(_, _)
\* the string get_arborescence returns: one line for each entry
ListingText(listing, i) ==
    IF i > Len(listing) THEN <<>>
    ELSE Plain(Repeat("  ", listing[i].indent)) \o << Char(EntryMark, listing[i].item) >>
         \o Plain(listing[i].name \o << LF >>) \o ListingText(listing, i + 1)

RECURSIVE ReplaceFrom(_, _, _, _)
\* t.replace(pat, pat + block) from index i on: every occurrence of pat,
\* left to right, without a second look at what was put in
ReplaceFrom(t, i, pat, block) ==
    IF i > Len(t) THEN <<>>
    ELSE IF /\ i + Len(pat) - 1 <= Len(t)
            /\ \A k \in 1..Len(pat) : t[i + k - 1].a = pat[k]
         THEN SubSeq(t, i, i + Len(pat) - 1) \o Plain(block)
              \o ReplaceFrom(t, i + Len(pat), pat, block)
    ELSE << t[i] >> \o ReplaceFrom(t, i + 1, pat, block)

\* the content of a file after the transformations its flags ask for
Transformed(text, functions, comments) ==
    LET Jumps(c) == [raised |-> c.raised, text |-> remove_extra_line_jumps(c.text)]
        Comments(c) == IF comments THEN remove_comments_and_docstrings(c)
                       ELSE [raised |-> FALSE, text |-> c]
    IN  Jumps(Comments(IF functions THEN remove_function_body(text).text ELSE text))

RECURSIVE WriteLoop(_, _, _, _, _, _)
\* the "for file in selected_files" loop of write_template over the included
\* files order[i..], on the listing text arbo
WriteLoop(arbo, nodes, srcs, s, order, i) ==
    IF i > Len(order) THEN [raised |-> FALSE, text |-> arbo]
    ELSE LET file == order[i]
             Replaced(c) ==
                 IF c.raised THEN [raised |-> TRUE, text |-> arbo]
                 ELSE WriteLoop(ReplaceFrom(arbo, 1, << EntryMark >> \o nodes[file].name \o << LF >>,
                                            << FenceOpen, LF >> \o c.text \o << LF, FenceClose, LF >>),
                                nodes, srcs, s, order, i + 1)
         IN  Replaced(Transformed(srcs[file], s.remove_functions[file], s.remove_comments[file]))

\* the text write_template writes to template.txt: the description, the
\* sentence that announces the listing, the listing with the blocks
write_template(description, arbo, nodes, srcs, s, order) ==
    LET sentence == "Here is there arborescence with most files content (may be reduced or skeleton only):"
        Written(r) ==
            [raised |-> r.raised,
             text |-> Plain(description \o << LF, LF, sentence, LF >>) \o r.text \o Plain(<< LF >>)]
    IN  Written(WriteLoop(arbo, nodes, srcs, s, order, 1))

\* the text of a file of one statement
PlainSource == << "x", LF >>

\* what the user chose for a file: not asked, declined, or included with
\* the two flags; text is the text of the file: one statement, two
\* statements three line breaks apart, a line that reads as the listing
\* entry of lib.py, a statement with a comment, a function
FileChoices ==
    { [include |-> "absent", comments |-> FALSE, functions |-> FALSE, text |-> PlainSource],
      [include |-> "no", comments |-> FALSE, functions |-> FALSE, text |-> PlainSource],
      [include |-> "yes", comments |-> FALSE, functions |-> FALSE, text |-> PlainSource],
      [include |-> "yes", comments |-> FALSE, functions |-> FALSE, text |-> << "x", LF, LF, LF, "x", LF >>],
      [include |-> "yes", comments |-> FALSE, functions |-> FALSE, text |-> << EntryMark, "lib", ".py", LF >>],
      [include |-> "yes", comments |-> FALSE, functions |-> FALSE, text |-> << "x", SP, SP, "#", LF >>],
      [include |-> "yes", comments |-> TRUE, functions |-> FALSE, text |-> << "x", SP, SP, "#", LF >>],
      [include |-> "yes", comments |-> FALSE, functions |-> TRUE, text |-> << "def", LF, SP, "x", LF >>] }

Files(nodes) == { i \in 1..Len(nodes) : nodes[i].kind = "file" }

InitTemplate ==
    /\ code = <<>>
    /\ content = NoText
    /\ tree = NoTree
    /\ savefile = NoFile
    /\ settings = <<>>
    /\ loaded = NotLoaded
    /\ fs = <<>>
    /\ ignored = <<>>
    /\ arborescence = <<>>
    /\ sources = <<>>
    /\ template = <<>>
    /\ rows = <<>>
    /\ widgets = <<>>
    /\ pc = "ready"

\* a new item appears in directory parent of the project
PlaceItem(parent, name, kind) ==
    /\ pc = "ready"
    /\ Len(fs) < MaxItems
    /\ parent \in Dirs(fs)
    /\ \A i \in 1..Len(fs) : fs[i].parent = parent => fs[i].name # name
    /\ fs' = Append(fs, [name |-> name, kind |-> kind, parent |-> parent])
    /\ UNCHANGED <<code, content, tree, pc, savefile, settings, loaded, ignored, arborescence,
                   sources, template, rows, widgets>>

\* arborescence = get_arborescence(Path('.'), ignored_folders, ignored_files)
\* write_template(description, arborescence, selected_files, remove_comments, remove_functions)
\* choice is what the user chose for each file, order the order of the
\* included files in selected_files
GenerateTemplate(ignored_folders, choice, order) ==
    /\ pc = "ready"
    /\ LET keys == { f \in Files(fs) : choice[f].include # "absent" }
           flagged == { f \in Files(fs) : choice[f].include = "yes" }
           s == [selected_files |-> [f \in keys |-> choice[f].include = "yes"],
                 remove_comments |-> [f \in flagged |-> choice[f].comments],
                 remove_functions |-> [f \in flagged |-> choice[f].functions]]
           srcs == [f \in Files(fs) |-> choice[f].text]
           listing == get_arborescence(fs, Root, 1, ignored_folders, {}, 0)
           r == write_template(<< "a" >>, ListingText(listing, 1), fs, srcs, s, order)
       IN  /\ Range(order) = flagged
           /\ settings' = s
           /\ sources' = srcs
           /\ ignored' = [folders |-> ignored_folders, files |-> {}]
           /\ arborescence' = listing
           /\ code' = order
           /\ template' = IF r.raised THEN template ELSE r.text
           /\ pc' = IF r.raised THEN "raised" ELSE "written"
    /\ UNCHANGED <<content, tree, savefile, loaded, fs, rows, widgets>>

NextTemplate ==
    \/ \E parent \in 0..MaxItems, name \in DirNames : PlaceItem(parent, name, "dir")
    \/ \E parent \in 0..MaxItems, name \in ItemNames : PlaceItem(parent, name, "file")
    \/ \E ignored_folders \in SUBSET { <<"venv">> }, choice \in [Files(fs) -> FileChoices] :
          \E order \in Orders({ f \in Files(fs) : choice[f].include = "yes" }) :
              GenerateTemplate(ignored_folders, choice, order)

SpecTemplate == InitTemplate /\ [][NextTemplate]_vars

\* ------------------------------------------------- claims on the template

\* the index after the listing entry that starts at index i of the template
AfterEntry(i) == i + 1 + Len(fs[template[i].item].name) + 1

\* a fenced block follows the listing entry that starts at index i
FenceFollows(i) ==
    AfterEntry(i) <= Len(template) /\ template[AfterEntry(i)].a = FenceOpen

\* C11: in the template a fenced block follows a listing entry only if the
\* entry is that of a file whose include flag is true; the entry of a file
\* that is not included, and the entry of a directory, is a bare line.
C11_OnlyIncludedHaveContent ==
    pc = "written" =>
        \A i \in 1..Len(template) :
            (template[i].item # 0 /\ FenceFollows(i)) =>
                /\ fs[template[i].item].kind = "file"
                /\ template[i].item \in DOMAIN settings.selected_files
                /\ settings.selected_files[template[i].item]


\* the text of file f holds no comment
NoComments(f) == "#" \notin Range(sources[f])

\* the text in the template from index i on is the text t
TextAt(i, t) ==
    /\ i + Len(t) - 1 <= Len(template)
    /\ \A k \in 1..Len(t) : template[i + k - 1].a = t[k]

\* C13: for a file without comments that is included with strip-comments
\* and strip-functions off, the content of its fenced block is the text of
\* the file, whatever other files are included, in whatever order.
C13_PlainFileVerbatim ==
    pc = "written" =>
        \A i \in 1..Len(template) :
            LET f == template[i].item
            IN  ( /\ f # 0
                  /\ f \in DOMAIN settings.remove_comments
                  /\ settings.selected_files[f]
                  /\ ~settings.remove_comments[f]
                  /\ ~settings.remove_functions[f]
                  /\ NoComments(f) )
                => TextAt(AfterEntry(i), << FenceOpen, LF >> \o sources[f] \o << LF, FenceClose, LF >>)

\* ------------------------------------------------- a damaged settings file

RECURSIVE JoinFileLines(_, _)
\* the text of the first k lines ls of a file
JoinFileLines(ls, k) ==
    IF k <= 0 THEN <<>>
    ELSE JoinFileLines(ls, k - 1) \o ls[k].c \o (IF ls[k].nl THEN << LF >> ELSE <<>>)

\* the save file loses its lines after the first k
TruncateFile(k) ==
    /\ pc = "saved"
    /\ k < Len(SplitLines(savefile))
    /\ savefile' = JoinFileLines(SplitLines(savefile), k)
    /\ pc' = "damaged"
    /\ UNCHANGED <<code, content, tree, settings, loaded, fs, ignored, arborescence,
                   sources, template, rows, widgets>>

\* the file-count line of the save file is overwritten with a word
GarbleCount ==
    /\ pc = "saved"
    /\ LET ls == SplitLines(savefile)
       IN  savefile' = JoinFileLines([ls EXCEPT ![2] = [c |-> << "x" >>, nl |-> TRUE]], Len(ls))
    /\ pc' = "damaged"
    /\ UNCHANGED <<code, content, tree, settings, loaded, fs, ignored, arborescence,
                   sources, template, rows, widgets>>

NextDamage ==
    \/ SaveSettings
    \/ \E k \in 0..MaxFileLines : TruncateFile(k)
    \/ GarbleCount
    \/ LoadSettings

SpecDamage == InitSettings /\ [][NextDamage]_vars

\* the save file is not one save_settings writes for the settings
IsCorrupt ==
    /\ savefile # NoFile
    /\ \A fo \in Orders(settings.ignored_folders), fi \in Orders(settings.ignored_files) :
          savefile # save_settings(settings, fo, fi)

\* C12: load_settings returns the no-settings result, and raises nothing,
\* when the settings file is missing or corrupt.
C12_CorruptMeansNoSettings ==
    (pc = "loaded" /\ (savefile = NoFile \/ IsCorrupt)) => loaded = None


\* C15: in a settings file save_settings wrote, the file count on the
\* second line is the number of per-file record lines that follow it (the
\* lines between the count and the two exclusion lines), so load_settings
\* reads no exclusion line as a record.
C15_CountMatchesRecords ==
    (pc = "saved" /\ savefile # NoFile) =>
        LET ls == SplitLines(savefile)
        IN  /\ IsInt(ls[2].c)
            /\ Int_(ls[2].c) = Len(ls) - 4

\* ------------------------------------------------------------- the window

RECURSIVE PathOf(_, _)
\* str(item): the path of item i below the working directory
PathOf(nodes, i) ==
    IF nodes[i].parent = Root THEN nodes[i].name
    ELSE PathOf(nodes, nodes[i].parent) \o << "/" >> \o nodes[i].name

\* the item of the path p, 0 if there is none
ItemOf(nodes, p) ==
    IF \E i \in 1..Len(nodes) : PathOf(nodes, i) = p
    THEN CHOOSE i \in 1..Len(nodes) : PathOf(nodes, i) = p
    ELSE 0

\* the values of the three columns of a row add_files_to_tree made
DefaultValues == << "", "No", "No" >>

\* item_text.endswith(".py")
EndsWithPy(text) == text[Len(text)] = ".py"

\* the entry text of a set of names: ', '.join(names)
EntryText(names) == Join(KeyOrder(names), << ",", SP >>)

\* set(entry.get().split(', '))
EntrySet(text) == Range(SplitCommaSpace(text, 1, <<>>))

\* the rows add_files_to_tree inserts, in the order of the tree view
AddedRows(listing, nodes) ==
    [k \in 1..Len(listing) |->
        LET i == listing[k].item
        IN  IF nodes[i].kind = "dir"
            THEN [text |-> nodes[i].name, tags |-> << << "directory" >> >>, values |-> <<>>, item |-> i]
            ELSE [text |-> nodes[i].name, tags |-> << PathOf(nodes, i) >>,
                  values |-> DefaultValues, item |-> i]]

\* get_tree_item_state and process_tree_item read item_values[0] of a row
\* whose text ends with ".py": IndexError when the row has no values
ReadFails(rs) == \E k \in 1..Len(rs) : EndsWithPy(rs[k].text) /\ rs[k].values = <<>>

RECURSIVE get_tree_state(_, _)
\* the state dictionary of the rows rs[1..k]
get_tree_state(rs, k) ==
    IF k = 0 THEN [p \in {} |-> <<>>]
    ELSE IF EndsWithPy(rs[k].text)
         THEN SetItem(get_tree_state(rs, k - 1), rs[k].tags[1], rs[k].values)
    ELSE get_tree_state(rs, k - 1)

\* set_tree_item_state on one row
set_tree_item_state(row, state) ==
    IF EndsWithPy(row.text) /\ row.tags[1] \in DOMAIN state
    THEN [row EXCEPT !.tags = << row.tags[1],
                                 << IF state[row.tags[1]][1] = "Included"
                                    THEN "included" ELSE "not_included" >> >>,
                     !.values = state[row.tags[1]]]
    ELSE row

\* populate_tree, after get_tree_state returned state
populate_tree(nodes, w, state) ==
    LET listing == get_arborescence(nodes, Root, 1, EntrySet(w.ignored_folders),
                                    EntrySet(w.ignored_files), 0)
        added == AddedRows(listing, nodes)
    IN  [k \in 1..Len(added) |-> set_tree_item_state(added[k], state)]

\* reset_tree_item that leaves the row as it is
reset_tree_item_Keeps(row) == row

\* reset_tree_item on one row
reset_tree_item(row) ==
    IF EndsWithPy(row.text)
    THEN [row EXCEPT !.tags = << row.tags[1], << "not_included" >> >>, !.values = DefaultValues]
    ELSE row

\* load_tree_item on one row
load_tree_item(row, s) ==
    IF EndsWithPy(row.text) /\ row.tags[1] \in DOMAIN s.selected_files
    THEN LET p == row.tags[1]
         IN  [row EXCEPT !.tags = << p, << IF s.selected_files[p] THEN "included"
                                           ELSE "not_included" >> >>,
                         !.values = << IF s.selected_files[p] THEN "Included" ELSE "",
                                       IF s.remove_comments[p] THEN "Yes" ELSE "No",
                                       IF s.remove_functions[p] THEN "Yes" ELSE "No" >>]
    ELSE row

RECURSIVE process_tree_items(_, _)
\* the three dictionaries process_tree_item fills from the rows rs[1..k]
process_tree_items(rs, k) ==
    IF k = 0 THEN [selected_files |-> NoFlags, remove_comments |-> NoFlags,
                   remove_functions |-> NoFlags]
    ELSE LET acc == process_tree_items(rs, k - 1)
             file_path == rs[k].tags[1]
         IN  IF EndsWithPy(rs[k].text)
             THEN [selected_files |-> SetItem(acc.selected_files, file_path, rs[k].values[1] = "Included"),
                   remove_comments |-> SetItem(acc.remove_comments, file_path, rs[k].values[2] = "Yes"),
                   remove_functions |-> SetItem(acc.remove_functions, file_path, rs[k].values[3] = "Yes")]
             ELSE acc

\* on the disk there is no settings file, or the one an earlier session
\* left
InitGui ==
    /\ code = <<>>
    /\ content = NoText
    /\ tree = NoTree
    /\ settings = <<>>
    /\ loaded = NotLoaded
    /\ fs = <<>>
    /\ ignored = <<>>
    /\ arborescence = <<>>
    /\ sources = <<>>
    /\ template = <<>>
    /\ rows = <<>>
    /\ widgets = <<>>
    /\ pc = "disk"
    /\ LET earlier == [description |-> << "a" >>,
                       selected_files |-> (<< "lib", ".py" >> :> TRUE),
                       remove_comments |-> (<< "lib", ".py" >> :> TRUE),
                       remove_functions |-> (<< "lib", ".py" >> :> TRUE),
                       ignored_folders |-> { << "pkg" >> },
                       ignored_files |-> { << "LICENSE" >> }]
       IN  savefile \in { NoFile,
                          save_settings(earlier, << << "pkg" >> >>, << << "LICENSE" >> >>) }

\* a new item appears in directory parent before the window opens
PlaceGuiItem(parent, name, kind) ==
    /\ pc = "disk"
    /\ Len(fs) < MaxGuiItems
    /\ parent \in Dirs(fs)
    /\ \A i \in 1..Len(fs) : fs[i].parent = parent => fs[i].name # name
    /\ fs' = Append(fs, [name |-> name, kind |-> kind, parent |-> parent])
    /\ UNCHANGED <<code, content, tree, pc, savefile, settings, loaded, ignored, arborescence,
                   sources, template, rows, widgets>>

\* App.__init__: the entries get their defaults, the tree is populated
OpenWindow ==
    /\ pc = "disk"
    /\ LET w == [description |-> <<>>,
                 ignored_folders |-> EntryText(DEFAULT_IGNORED_FOLDERS),
                 ignored_files |-> EntryText(DEFAULT_IGNORED_FILES)]
       IN  /\ widgets' = w
           /\ rows' = populate_tree(fs, w, get_tree_state(<<>>, 0))
    /\ pc' = "window"
    /\ UNCHANGED <<code, content, tree, savefile, settings, loaded, fs, ignored, arborescence,
                   sources, template>>

\* the user types a description
TypeDescription(text) ==
    /\ pc \in {"window", "reset"}
    /\ widgets' = [widgets EXCEPT !.description = text]
    /\ pc' = "window"
    /\ UNCHANGED <<code, content, tree, savefile, settings, loaded, fs, ignored, arborescence,
                   sources, template, rows>>

\* the user types a list of folders
TypeIgnoredFolders(text) ==
    /\ pc \in {"window", "reset"}
    /\ widgets' = [widgets EXCEPT !.ignored_folders = text]
    /\ pc' = "window"
    /\ UNCHANGED <<code, content, tree, savefile, settings, loaded, fs, ignored, arborescence,
                   sources, template, rows>>

\* on_treeview_click on row k, column "#1", "#2" or "#3"
Click(k, column) ==
    /\ pc \in {"window", "reset"}
    /\ k \in 1..Len(rows)
    /\ << "directory" >> \notin Range(rows[k].tags)
    /\ LET value == rows[k].values[column]
           new_value == IF column = 1 THEN (IF value = "" THEN "Included" ELSE "")
                        ELSE (IF value = "No" THEN "Yes" ELSE "No")
           tags == IF column = 1
                   THEN << rows[k].tags[1],
                           << IF new_value = "Included" THEN "included" ELSE "not_included" >> >>
                   ELSE rows[k].tags
       IN  rows' = [rows EXCEPT ![k] = [@ EXCEPT !.tags = tags, !.values[column] = new_value]]
    /\ pc' = "window"
    /\ UNCHANGED <<code, content, tree, savefile, settings, loaded, fs, ignored, arborescence,
                   sources, template, widgets>>

\* the Reload button: populate_tree
Reload ==
    /\ pc \in {"window", "reset"}
    /\ ~ReadFails(rows)
    /\ rows' = populate_tree(fs, widgets, get_tree_state(rows, Len(rows)))
    /\ pc' = "window"
    /\ UNCHANGED <<code, content, tree, savefile, settings, loaded, fs, ignored, arborescence,
                   sources, template, widgets>>

\* the Load Settings button: App.load_settings
LoadSettingsGui ==
    /\ pc \in {"window", "reset"}
    /\ loaded' = load_settings(savefile)
    /\ IF loaded' = None
       THEN UNCHANGED <<widgets, rows>>
       ELSE /\ widgets' = [description |-> loaded'.description,
                           ignored_folders |-> EntryText(loaded'.ignored_folders),
                           ignored_files |-> EntryText(loaded'.ignored_files)]
            /\ rows' = [k \in 1..Len(rows) |-> load_tree_item(rows[k], loaded')]
    /\ pc' = "window"
    /\ UNCHANGED <<code, content, tree, savefile, settings, fs, ignored, arborescence,
                   sources, template>>

\* the Reset button, confirmed: App.reset_settings; populate_tree reads the
\* rows reset_tree_items has reset, each with values by then
ResetSettings ==
    /\ pc \in {"window", "reset"}
    /\ LET w == [description |-> <<>>,
                 ignored_folders |-> EntryText(DEFAULT_IGNORED_FOLDERS),
                 ignored_files |-> EntryText(DEFAULT_IGNORED_FILES)]
           cleared == [k \in 1..Len(rows) |-> reset_tree_item(rows[k])]
       IN  /\ ~ReadFails(cleared)
           /\ widgets' = w
           /\ rows' = populate_tree(fs, w, get_tree_state(cleared, Len(cleared)))
    /\ pc' = "reset"
    /\ UNCHANGED <<code, content, tree, savefile, settings, loaded, fs, ignored, arborescence,
                   sources, template>>

\* the Generate Template button: App.generate_template, and the window is
\* closed
GenerateTemplateGui ==
    /\ pc \in {"window", "reset"}
    /\ ~ReadFails(rows)
    /\ LET s == process_tree_items(rows, Len(rows))
           ignored_folders == EntrySet(widgets.ignored_folders)
           ignored_files == EntrySet(widgets.ignored_files)
           listing == get_arborescence(fs, Root, 1, ignored_folders, ignored_files, 0)
           included == SelectSeq([k \in 1..Len(rows) |-> rows[k].tags[1]],
                                 LAMBDA p : p \in DOMAIN s.selected_files /\ s.selected_files[p])
           order == [k \in 1..Len(included) |-> ItemOf(fs, included[k])]
           byItem == [selected_files |-> [f \in Range(order) |-> TRUE],
                      remove_comments |-> [f \in Range(order) |-> s.remove_comments[PathOf(fs, f)]],
                      remove_functions |-> [f \in Range(order) |-> s.remove_functions[PathOf(fs, f)]]]
           srcs == [f \in Files(fs) |-> PlainSource]
           r == write_template(Strip(widgets.description), ListingText(listing, 1), fs, srcs,
                               byItem, order)
       IN  /\ settings' = s
           /\ sources' = srcs
           /\ ignored' = [folders |-> ignored_folders, files |-> ignored_files]
           /\ arborescence' = listing
           /\ template' = r.text
    /\ pc' = "generated"
    /\ UNCHANGED <<code, content, tree, savefile, loaded, fs, rows, widgets>>

\* the Save Settings button: App.save_settings, and the window is closed
SaveSettingsGui ==
    /\ pc \in {"window", "reset"}
    /\ ~ReadFails(rows)
    /\ LET s == process_tree_items(rows, Len(rows))
           ignored_folders == EntrySet(widgets.ignored_folders)
           ignored_files == EntrySet(widgets.ignored_files)
           all == [description |-> Strip(widgets.description),
                   selected_files |-> s.selected_files,
                   remove_comments |-> s.remove_comments,
                   remove_functions |-> s.remove_functions,
                   ignored_folders |-> ignored_folders,
                   ignored_files |-> ignored_files]
       IN  /\ settings' = s
           /\ savefile' = save_settings(all, KeyOrder(ignored_folders), KeyOrder(ignored_files))
    /\ pc' = "saved"
    /\ UNCHANGED <<code, content, tree, loaded, fs, ignored, arborescence, sources, template,
                   rows, widgets>>

NextGui ==
    \/ \E parent \in 0..MaxGuiItems, name \in { <<"pkg">>, <<"lib", ".py">> } : PlaceGuiItem(parent, name, "dir")
    \/ \E parent \in 0..MaxGuiItems, name \in { <<"lib", ".py">>, <<"app", ".pyw">> } : PlaceGuiItem(parent, name, "file")
    \/ OpenWindow
    \/ \E text \in { << "a" >> } : TypeDescription(text)
    \/ \E text \in { << "pkg" >> } : TypeIgnoredFolders(text)
    \/ \E k \in 1..MaxGuiItems, column \in 1..3 : Click(k, column)
    \/ Reload
    \/ LoadSettingsGui
    \/ ResetSettings
    \/ GenerateTemplateGui
    \/ SaveSettingsGui

SpecGui == InitGui /\ [][NextGui]_vars

\* --------------------------------------------------- claims on the window

\* row k is the row of a file
IsFileRow(k) == fs[rows[k].item].kind = "file"

\* C14: right after a confirmed reset_settings, whatever clicks, reloads
\* and settings loads came before, every file row has Include empty,
\* Remove Comments = No and Remove Functions = No, the description is empty
\* and the two exclusion entries hold the default lists.
C14_ResetRestoresDefaults ==
    pc = "reset" =>
        /\ \A k \in 1..Len(rows) : IsFileRow(k) => rows[k].values = DefaultValues
        /\ widgets.description = <<>>
        /\ EntrySet(widgets.ignored_folders) = DEFAULT_IGNORED_FOLDERS
        /\ EntrySet(widgets.ignored_files) = DEFAULT_IGNORED_FILES

\* a reset has been made in a window that has loaded saved settings and
\* shows a file row of suffix .py and a file row of another suffix
C14_Witness ==
    /\ pc = "reset"
    /\ loaded # NotLoaded /\ loaded # None
    /\ \E k \in 1..Len(rows) : IsFileRow(k) /\ ~EndsWithPy(rows[k].text)
    /\ \E k \in 1..Len(rows) : IsFileRow(k) /\ EndsWithPy(rows[k].text)

\* C16: every file row whose Include column is Included when
\* generate_template or save_settings runs is in the selected_files handed
\* to write_template or save_settings, with the flag true.
C16_IncludedRowsPassed ==
    pc \in {"generated", "saved"} =>
        \A k \in 1..Len(rows) :
            (IsFileRow(k) /\ rows[k].values[1] = "Included") =>
                /\ PathOf(fs, rows[k].item) \in DOMAIN settings.selected_files
                /\ settings.selected_files[PathOf(fs, rows[k].item)]

\* ------------------------------------------------------- the command line

\* Path('.').rglob('*.py'): the paths whose name ends with ".py"
PyPaths(nodes) == { PathOf(nodes, i) : i \in { j \in 1..Len(nodes) : EndsWithPy(nodes[j].name) } }

RECURSIVE is_parent_ignored(_, _, _)
\* is_parent_ignored for item i: a directory above it is in ignored_folders
is_parent_ignored(nodes, i, ignored_folders) ==
    /\ nodes[i].parent # Root
    /\ \/ nodes[nodes[i].parent].name \in ignored_folders
       \/ is_parent_ignored(nodes, nodes[i].parent, ignored_folders)

\* the files the loop of get_user_settings does not skip
Visited(nodes, ignored_folders, ignored_files) ==
    { PathOf(nodes, i) : i \in { j \in 1..Len(nodes) :
          /\ EndsWithPy(nodes[j].name)
          /\ ~is_parent_ignored(nodes, j, ignored_folders)
          /\ nodes[j].name \notin ignored_files } }

RECURSIVE SplitComma(_, _, _)
\* str.split(',')
SplitComma(t, i, part) ==
    IF i > Len(t) THEN << part >>
    ELSE IF t[i] = "," THEN << part >> \o SplitComma(t, i + 1, <<>>)
    ELSE SplitComma(t, i + 1, Append(part, t[i]))

\* del d[key]
DelItem(d, key) == [k \in DOMAIN d \ {key} |-> d[k]]

RECURSIVE AskFiles_KeepsFlags(_, _, _)
\* AskFiles without the two "del" of the flags of a file saved as declined
AskFiles_KeepsFlags(files, answers, s) ==
    IF files = <<>> THEN s
    ELSE LET file == Head(files)
             next == IF file \notin DOMAIN s.selected_files
                     THEN IF answers[file].include
                          THEN [s EXCEPT !.selected_files = SetItem(@, file, TRUE),
                                         !.remove_comments = SetItem(@, file, answers[file].comments),
                                         !.remove_functions = SetItem(@, file, answers[file].functions)]
                          ELSE [s EXCEPT !.selected_files = SetItem(@, file, FALSE)]
                     ELSE IF ~s.selected_files[file]
                          THEN [s EXCEPT !.selected_files = DelItem(@, file)]
                     ELSE s
         IN  AskFiles_KeepsFlags(Tail(files), answers, next)

RECURSIVE AskFiles(_, _, _)
\* the "for file in Path('.').rglob('*.py')" loop of get_user_settings over
\* the files it does not skip; s.raised is set when a "del" finds no key
AskFiles(files, answers, s) ==
    IF files = <<>> \/ s.raised THEN s
    ELSE LET file == Head(files)
             next == IF file \notin DOMAIN s.selected_files
                     THEN IF answers[file].include
                          THEN [s EXCEPT !.selected_files = SetItem(@, file, TRUE),
                                         !.remove_comments = SetItem(@, file, answers[file].comments),
                                         !.remove_functions = SetItem(@, file, answers[file].functions)]
                          ELSE [s EXCEPT !.selected_files = SetItem(@, file, FALSE)]
                     ELSE IF ~s.selected_files[file]
                          THEN IF file \in DOMAIN s.remove_comments /\ file \in DOMAIN s.remove_functions
                               THEN [s EXCEPT !.selected_files = DelItem(@, file),
                                              !.remove_comments = DelItem(@, file),
                                              !.remove_functions = DelItem(@, file)]
                               ELSE [s EXCEPT !.raised = TRUE]
                     ELSE s
         IN  AskFiles(Tail(files), answers, next)

\* what get_user_settings returns: saved is the saved settings or None,
\* description and the two inputs what the user types, answers the y/n
\* answers for each file
get_user_settings(nodes, saved, description, folders_input, files_input, answers) ==
    LET ignored_folders == IF saved # None THEN saved.ignored_folders
                           ELSE IF folders_input # <<>>
                                THEN Range(SplitComma(folders_input, 1, <<>>))
                           ELSE DEFAULT_IGNORED_FOLDERS
        ignored_files == IF saved # None THEN saved.ignored_files
                         ELSE IF files_input # <<>>
                              THEN Range(SplitComma(files_input, 1, <<>>))
                         ELSE DEFAULT_IGNORED_FILES
        start == IF saved # None
                 THEN [description |-> description,
                       selected_files |-> saved.selected_files,
                       remove_comments |-> saved.remove_comments,
                       remove_functions |-> saved.remove_functions,
                       ignored_folders |-> ignored_folders,
                       ignored_files |-> ignored_files,
                       raised |-> FALSE]
                 ELSE [description |-> description,
                       selected_files |-> NoFlags,
                       remove_comments |-> NoFlags,
                       remove_functions |-> NoFlags,
                       ignored_folders |-> ignored_folders,
                       ignored_files |-> ignored_files,
                       raised |-> FALSE]
    IN  AskFiles(KeyOrder(Visited(nodes, ignored_folders, ignored_files)), answers, start)

\* the project run_cli works in: a.py, and b.py in the directory pkg; on
\* the disk there is no settings file, or the one the window saved in an
\* earlier session, when a.py was the one file of the project and its row
\* was not included
InitCli ==
    /\ code = <<>>
    /\ content = NoText
    /\ tree = NoTree
    /\ LET window == [description |-> << "a" >>,
                      selected_files |-> (<< "a", ".py" >> :> FALSE),
                      remove_comments |-> (<< "a", ".py" >> :> TRUE),
                      remove_functions |-> (<< "a", ".py" >> :> FALSE),
                      ignored_folders |-> DEFAULT_IGNORED_FOLDERS,
                      ignored_files |-> DEFAULT_IGNORED_FILES]
       IN  savefile \in { NoFile,
                          save_settings(window, KeyOrder(DEFAULT_IGNORED_FOLDERS),
                                        KeyOrder(DEFAULT_IGNORED_FILES)) }
    /\ settings = <<>>
    /\ loaded = NotLoaded
    /\ fs = << [name |-> << "a", ".py" >>, kind |-> "file", parent |-> Root],
               [name |-> << "pkg" >>, kind |-> "dir", parent |-> Root],
               [name |-> << "b", ".py" >>, kind |-> "file", parent |-> 2] >>
    /\ ignored = <<>>
    /\ arborescence = <<>>
    /\ sources = [f \in Files(fs) |-> PlainSource]
    /\ template = <<>>
    /\ rows = <<>>
    /\ widgets = <<>>
    /\ pc = "start"

\* run_cli: saved_settings = load_settings()
LoadSettingsCli ==
    /\ pc = "start"
    /\ loaded' = load_settings(savefile)
    /\ pc' = IF loaded' = ValueError THEN "raised" ELSE "loaded"
    /\ UNCHANGED <<code, content, tree, savefile, settings, fs, ignored, arborescence,
                   sources, template, rows, widgets>>

\* run_cli: the user answers y to "use the saved settings"
UseSavedSettings ==
    /\ pc = "loaded"
    /\ loaded # None
    /\ settings' = loaded
    /\ pc' = "saved settings"
    /\ UNCHANGED <<code, content, tree, savefile, loaded, fs, ignored, arborescence,
                   sources, template, rows, widgets>>

\* run_cli: ... = get_user_settings(saved_settings) or get_user_settings()
GetUserSettings(description, folders_input, files_input, answers) ==
    /\ pc = "loaded"
    /\ LET r == get_user_settings(fs, loaded, description, folders_input, files_input, answers)
       IN  /\ settings' = [description |-> r.description,
                            selected_files |-> r.selected_files,
                            remove_comments |-> r.remove_comments,
                            remove_functions |-> r.remove_functions,
                            ignored_folders |-> r.ignored_folders,
                            ignored_files |-> r.ignored_files]
           /\ pc' = IF r.raised THEN "raised" ELSE "asked"
    /\ UNCHANGED <<code, content, tree, savefile, loaded, fs, ignored, arborescence,
                   sources, template, rows, widgets>>

\* run_cli: arborescence = get_arborescence(...); write_template(...)
\* write_template reads selected_files[file], file.open(),
\* remove_functions[file] and remove_comments[file] of each file: a
\* KeyError or an OSError ends it
WriteTemplateCli ==
    /\ pc \in {"asked", "saved settings"}
    /\ LET listing == get_arborescence(fs, Root, 1, settings.ignored_folders,
                                       settings.ignored_files, 0)
           order == KeyOrder({ ItemOf(fs, p) : p \in { q \in DOMAIN settings.selected_files :
                                                          settings.selected_files[q] } })
           byItem == [selected_files |-> [f \in Range(order) |-> TRUE],
                      remove_comments |-> [f \in Range(order) |->
                                              settings.remove_comments[PathOf(fs, f)]],
                      remove_functions |-> [f \in Range(order) |->
                                               settings.remove_functions[PathOf(fs, f)]]]
       IN  /\ arborescence' = listing
           /\ ignored' = [folders |-> settings.ignored_folders, files |-> settings.ignored_files]
           /\ IF \E file \in DOMAIN settings.selected_files :
                    /\ settings.selected_files[file]
                    /\ \/ ItemOf(fs, file) \notin Files(fs)
                       \/ file \notin DOMAIN settings.remove_functions
                       \/ file \notin DOMAIN settings.remove_comments
              THEN /\ template' = template
                   /\ pc' = "raised"
              ELSE /\ template' = write_template(settings.description, ListingText(listing, 1),
                                                 fs, sources, byItem, order).text
                   /\ pc' = "written"
    /\ UNCHANGED <<code, content, tree, savefile, settings, loaded, fs, sources, rows, widgets>>

\* run_cli: the user answers y to "save these settings"; the run ends
SaveSettingsCli ==
    /\ pc = "written"
    /\ savefile' = save_settings(settings, KeyOrder(settings.ignored_folders),
                                 KeyOrder(settings.ignored_files))
    /\ pc' = "start"
    /\ UNCHANGED <<code, content, tree, settings, loaded, fs, ignored, arborescence,
                   sources, template, rows, widgets>>

\* run_cli: the user answers n to "save these settings"; the run ends
EndRun ==
    /\ pc = "written"
    /\ pc' = "start"
    /\ UNCHANGED <<code, content, tree, savefile, settings, loaded, fs, ignored, arborescence,
                   sources, template, rows, widgets>>

NextCli ==
    \/ LoadSettingsCli
    \/ UseSavedSettings
    \/ \E description \in { << "a" >> },
          folders_input \in { <<>>, << "pkg" >> },
          files_input \in { <<>>, << "x", ",", "y" >> },
          answers \in [PyPaths(fs) -> [include : BOOLEAN, comments : BOOLEAN, functions : BOOLEAN]] :
          GetUserSettings(description, folders_input, files_input, answers)
    \/ WriteTemplateCli
    \/ SaveSettingsCli
    \/ EndRun

SpecCli == InitCli /\ [][NextCli]_vars

\* ---------------------------------------------- claims on the command line

\* C17: in every result of get_user_settings, remove_comments and
\* remove_functions have the same keys, these are keys of selected_files,
\* every file mapped to true in selected_files is a key of both, and a file
\* the saved settings record as not included is in all three maps or in
\* none: in none when the loop came to it.
C17_FlagMapsConsistent ==
    pc = "asked" =>
        /\ DOMAIN settings.remove_comments = DOMAIN settings.remove_functions
        /\ DOMAIN settings.remove_comments \subseteq DOMAIN settings.selected_files
        /\ \A file \in DOMAIN settings.selected_files :
              settings.selected_files[file] => file \in DOMAIN settings.remove_comments
        /\ loaded # None =>
              \A file \in DOMAIN loaded.selected_files :
                  ~loaded.selected_files[file] =>
                      /\ (file \in DOMAIN settings.selected_files)
                            = (file \in DOMAIN settings.remove_comments)
                      /\ file \in Visited(fs, settings.ignored_folders, settings.ignored_files)
                            => file \notin DOMAIN settings.selected_files

\* get_user_settings has returned in a run with saved settings that record
\* one file as not included, and has asked about another file
C17_Witness ==
    /\ pc = "asked"
    /\ loaded # None
    /\ \E file \in DOMAIN loaded.selected_files :
          /\ ~loaded.selected_files[file]
          /\ file \in PyPaths(fs)
          /\ file \notin DOMAIN settings.selected_files
    /\ \E file \in DOMAIN settings.selected_files :
          /\ file \notin DOMAIN loaded.selected_files
          /\ settings.selected_files[file]

=============================================================================
